---- MODULE Spec2Model ----
(***************************************************************************)
(* Model of ModernChatScreen (src/chat_ui/screens/chat_screen.py): the     *)
(* Kivy main thread (the Clock scheduler and the UI events), the worker    *)
(* threads started by _test_backend and _send_to_backend, and the          *)
(* ChatWebSocketClient they talk to.  The client's source is not part of   *)
(* the files modelled here; its behaviour follows spec.md 4.1-4.3.         *)
(*                                                                         *)
(* The main thread runs one handler at a time.  Handlers that share no     *)
(* field with a worker thread are one atomic action.  The fields           *)
(* _pending_chunks, _text_update_scheduled and current_bubble are also     *)
(* written by the worker thread that runs _on_chunk and                    *)
(* _on_message_complete, so _process_batched_chunks/_append_chunk_batch    *)
(* and _on_chunk are split at the statements between which the other       *)
(* thread can run.                                                         *)
(***************************************************************************)
EXTENDS Integers, Sequences, FiniteSets, TLC

\* ---------------------------------------------------------------- bounds
\* Number of non-empty sends the user issues.
MaxSends == 2
\* Largest number of chunks the backend streams for one message.
MaxChunks == 2
\* Config.MAX_MESSAGE_HISTORY as read at chat_screen.py:93 (scaled down).
max_messages == 1
\* 'max_retries' of the desktop profile.
max_retries == 3
\* message[:30] in _show_demo_response.
DEMO_PREFIX_LEN == 30

\* ---------------------------------------------------------------- values
None == 0

DISCONNECTED == "DISCONNECTED"
CONNECTING == "CONNECTING"
CONNECTED == "CONNECTED"
ERROR == "ERROR"
RECONNECTING == "RECONNECTING"
ConnectionState == {DISCONNECTED, CONNECTING, CONNECTED, ERROR, RECONNECTING}

\* Messages.* of chat_ui.core.config, named by attribute.
MSG_OFFLINE == "Messages.OFFLINE"
MSG_CONNECTING == "Messages.CONNECTING"
MSG_ONLINE == "Messages.ONLINE"
MSG_CONNECTION_ERROR == "Messages.CONNECTION_ERROR"
MSG_RECONNECTING == "Messages.RECONNECTING"
MSG_DEMO_MODE == "Messages.DEMO_MODE"

\* A text is a sequence of tokens; " " is the whitespace token.
WS == " "
\* What the user may have typed into text_input when send_message runs.
Inputs == {<<>>, <<WS>>, <<WS, "h", WS>>}

\* The k-th chunk streamed for send s: a one-token text, all distinct.
Chunk(s, k) == <<ToString(s) \o "." \o ToString(k)>>

SendIds == 1..MaxSends

VARIABLES
    connection_state,        \* client.connection_state
    retry_count,             \* client: failed attempts since the last CONNECTED
    in_flight,               \* client: id of the send whose exchange is open, or None
    backend_available,       \* self.backend_available
    status_label,            \* self.status_label.text
    current_bubble,          \* self.current_bubble: a bubble id or None
    messages,                \* self.messages.children (Kivy order: newest first)
    text_input,              \* self.text_input.text
    input_focus,             \* self.text_input.focus
    pending_chunks,          \* self._pending_chunks
    text_update_scheduled,   \* self._text_update_scheduled
    scroll_scheduled,        \* self._scroll_scheduled
    throttle_elapsed,        \* time.time() - _last_scroll_time >= _scroll_throttle_delay
    scroll_y,                \* self.scroll_view.scroll_y (0 is the bottom)
    scroll_events,           \* Kivy Clock: pending _do_throttled_scroll events
    flush_events,            \* Kivy Clock: pending _process_batched_chunks events
    queue,                   \* Kivy Clock: pending schedule_once(f) events, in order
    startup_events,          \* Kivy Clock: pending one-shot events of __init__
    mainpc,                  \* where the main thread is inside _process_batched_chunks
    combined_text,           \* local of _process_batched_chunks
    probe,                   \* the thread started by _test_backend
    threads,                 \* the threads started by _send_to_backend
    sends,                   \* number of non-empty sends so far
    next_id,                 \* id the next ModernBubble gets
    crashed,                 \* an exception left a Clock callback: the app is gone
    offered,                 \* history: chunks passed to _on_chunk, in order
    delivered,               \* history: texts passed to _append_chunk_batch, in order
    transport_sends,         \* history: per send, writes of its message to the link
    error_notes,             \* history: per send, error tasks handed to the Clock
    error_bubbles,           \* history: per send, error bubbles put on screen
    empty_flushes            \* history: runs of _process_batched_chunks that found no chunk

vars == <<connection_state, retry_count, in_flight, backend_available, status_label,
          current_bubble, messages, text_input, input_focus, pending_chunks,
          text_update_scheduled, scroll_scheduled, throttle_elapsed, scroll_y,
          scroll_events, flush_events, queue, startup_events, mainpc, combined_text,
          probe, threads, sends, next_id, crashed,
          offered, delivered, transport_sends, error_notes, error_bubbles,
          empty_flushes>>

\* ---------------------------------------------------------------- texts
RECURSIVE Join(_)
\* ''.join(chunks)
Join(chunks) ==
    IF chunks = <<>> THEN <<>> ELSE Head(chunks) \o Join(Tail(chunks))

RECURSIVE LStrip(_)
LStrip(t) ==
    IF t # <<>> /\ Head(t) = WS THEN LStrip(Tail(t)) ELSE t

RECURSIVE RStrip(_)
RStrip(t) ==
    IF t # <<>> /\ t[Len(t)] = WS THEN RStrip(SubSeq(t, 1, Len(t) - 1)) ELSE t

\* the text taken as it is, without strip()
StripNothing(t) == t

\* str.strip()
Strip(t) == RStrip(LStrip(t))

\* message[:n]
Prefix(t, n) == SubSeq(t, 1, IF Len(t) < n THEN Len(t) ELSE n)

\* f"Demo response to: '{message[:30]}{'...' if len(message) > 30 else ''}'"
DemoText(message) ==
    <<"Demo response to: '">> \o Prefix(message, DEMO_PREFIX_LEN)
        \o (IF Len(message) > DEMO_PREFIX_LEN THEN <<"...">> ELSE <<>>) \o <<"'">>

\* str.lower() on the tokens an error text is made of.
Lower(tok) ==
    CASE tok = "Timeout" -> "timeout"
      [] tok = "WebSocket" -> "websocket"
      [] OTHER -> tok

Contains(t, tok) == \E i \in 1..Len(t) : t[i] = tok
ContainsLower(t, tok) == \E i \in 1..Len(t) : Lower(t[i]) = tok

FormatErrorMessage(error) ==
    IF Contains(error, "Connection refused")
    THEN <<"Cannot connect to server. Please check your connection.">>
    ELSE IF ContainsLower(error, "timeout")
    THEN <<"Request timed out. Please try again.">>
    ELSE IF ContainsLower(error, "websocket")
    THEN <<"Connection lost. Switching to demo mode.">>
    ELSE <<"Something went wrong. Please try again.">>

\* ---------------------------------------------------------------- bubbles
\* ModernBubble(text, is_user); id stands for the object's identity.
ModernBubble(id, text, is_user) == [id |-> id, text |-> text, is_user |-> is_user]

\* Widget.add_widget(w): Kivy inserts at index 0 of children.
AddWidget(children, w) == <<w>> \o children

\* remove_widget(children[0]): the newest child instead of the oldest
RemoveNewestChild(children) == Tail(children)

\* Widget.remove_widget(children[-1])
RemoveLastChild(children) == SubSeq(children, 1, Len(children) - 1)

RECURSIVE RemoveOldest(_, _)
\* for _ in range(n): if children: remove_widget(children[-1])
RemoveOldest(children, n) ==
    IF n = 0 THEN children
    ELSE IF children # <<>> THEN RemoveOldest(RemoveLastChild(children), n - 1)
    ELSE RemoveOldest(children, n - 1)

CleanupOldMessages(children) ==
    IF Len(children) > max_messages
    THEN RemoveOldest(children, Len(children) - max_messages)
    ELSE children

BubbleIds(children) == {children[i].id : i \in 1..Len(children)}

\* bubble.update_text(bubble.label.text + text) for the bubble with this id;
\* a bubble that was removed from the layout is no longer on screen.
UpdateText(children, id, text) ==
    [i \in 1..Len(children) |->
        IF children[i].id = id
        THEN [children[i] EXCEPT !.text = @ \o text]
        ELSE children[i]]

\* ---------------------------------------------------------------- scrolling
ScrollState ==
    [scheduled |-> scroll_scheduled, elapsed |-> throttle_elapsed,
     y |-> scroll_y, events |-> scroll_events]

\* A scroll was performed now: _last_scroll_time = now, and the deferred
\* events scheduled before it no longer end a throttle window.
Overtake(events) ==
    [i \in 1..Len(events) |-> IF events[i] = "waiting" THEN "overtaken" ELSE events[i]]

DoScroll(st) == [st EXCEPT !.y = 0]

\* _scroll_to_bottom without the test of _scroll_scheduled at line 247
ScrollToBottomAlwaysSchedules(st, force) ==
    IF force \/ st.elapsed
    THEN [DoScroll(st) EXCEPT !.elapsed = FALSE, !.events = Overtake(@)]
    ELSE [st EXCEPT !.scheduled = TRUE, !.events = Append(@, "waiting")]

ScrollToBottom(st, force) ==
    IF force \/ st.elapsed
    THEN [DoScroll(st) EXCEPT !.elapsed = FALSE, !.events = Overtake(@)]
    ELSE IF ~st.scheduled
    THEN [st EXCEPT !.scheduled = TRUE, !.events = Append(@, "waiting")]
    ELSE st

SetScroll(st) ==
    /\ scroll_scheduled' = st.scheduled
    /\ throttle_elapsed' = st.elapsed
    /\ scroll_y' = st.y
    /\ scroll_events' = st.events

scrollVars == <<scroll_scheduled, throttle_elapsed, scroll_y, scroll_events>>

\* ---------------------------------------------------------------- threads
NoThread == [pc |-> "none", emitted |-> 0, err |-> <<>>]

Task(name, send, flag, text) == [task |-> name, send |-> send, flag |-> flag, text |-> text]

\* ---------------------------------------------------------------- Init
Init ==
    /\ connection_state = DISCONNECTED
    /\ retry_count = 0
    /\ in_flight = None
    /\ backend_available = FALSE
    /\ status_label = MSG_CONNECTING
    /\ current_bubble = None
    /\ messages = <<ModernBubble(1, <<"Config.WELCOME_MESSAGE">>, FALSE)>>
    /\ text_input = <<>>
    /\ input_focus = FALSE
    /\ pending_chunks = <<>>
    /\ text_update_scheduled = FALSE
    /\ scroll_scheduled = FALSE
    /\ throttle_elapsed = TRUE
    /\ scroll_y = 1
    /\ scroll_events = <<>>
    /\ flush_events = 0
    /\ queue = <<>>
    /\ startup_events = {"_scroll_to_bottom", "_test_backend"}
    /\ mainpc = "idle"
    /\ combined_text = <<>>
    /\ probe = "none"
    /\ threads = [s \in SendIds |-> NoThread]
    /\ sends = 0
    /\ next_id = 2
    /\ crashed = FALSE
    /\ offered = <<>>
    /\ delivered = <<>>
    /\ transport_sends = [s \in SendIds |-> 0]
    /\ error_notes = [s \in SendIds |-> 0]
    /\ error_bubbles = [s \in SendIds |-> 0]
    /\ empty_flushes = 0

\* ------------------------------------------------- ChatWebSocketClient
\* The client always has the attribute connection_state
\* (hasattr(self.client, 'connection_state')).
ClientHasConnectionState == TRUE

\* str(e) of the exceptions client.send_message raises.
ErrorText(kind) ==
    CASE kind = "NotConnected" -> <<"not", "connected">>
      [] kind = "Busy" -> <<"busy">>
      [] kind = "Refused" -> <<"Connection refused">>
      [] kind = "Timeout" -> <<"Timeout">>
      [] kind = "ProtocolMismatch" -> <<"WebSocket", "protocol">>

\* The link error a stream is cut off with.
LinkErrors == {"Timeout"}

\* sendMessage without the Busy check
ClientAdmitNoBusy ==
    IF connection_state # CONNECTED THEN "NotConnected" ELSE "ok"

\* sendMessage: NotConnected unless CONNECTED, Busy while an exchange is open.
ClientAdmit ==
    IF connection_state # CONNECTED THEN "NotConnected"
    ELSE IF in_flight # None THEN "Busy"
    ELSE "ok"

clientVars == <<connection_state, retry_count>>

\* Everything the client's state machine leaves alone.
nonClientVars ==
    <<in_flight, backend_available, status_label, current_bubble, messages,
      text_input, input_focus, pending_chunks, text_update_scheduled,
      scrollVars, flush_events, queue, startup_events, mainpc,
      combined_text, probe, threads, sends, next_id, crashed, offered,
      delivered, transport_sends, error_notes, error_bubbles, empty_flushes>>

ClientConnectRequested ==
    /\ ~crashed
    /\ connection_state = DISCONNECTED
    /\ connection_state' = CONNECTING
    /\ UNCHANGED <<retry_count, nonClientVars>>

ClientOpenSucceeds ==
    /\ ~crashed
    /\ connection_state = CONNECTING
    /\ connection_state' = CONNECTED
    /\ UNCHANGED <<retry_count, nonClientVars>>

ClientOpenFails ==
    /\ ~crashed
    /\ connection_state = CONNECTING
    /\ connection_state' = IF retry_count < max_retries THEN RECONNECTING ELSE ERROR
    /\ UNCHANGED <<retry_count, nonClientVars>>

\* Ping timeout while no exchange is open.
ClientLinkFailure ==
    /\ ~crashed
    /\ connection_state = CONNECTED
    /\ in_flight = None
    /\ connection_state' = RECONNECTING
    /\ UNCHANGED <<retry_count, nonClientVars>>

\* a retry attempted without looking at max_retries
ClientRetryUnbounded ==
    /\ ~crashed
    /\ connection_state = RECONNECTING
    /\ retry_count < max_retries + 2
    /\ connection_state' = CONNECTING
    /\ retry_count' = retry_count + 1
    /\ UNCHANGED nonClientVars

ClientRetry ==
    /\ ~crashed
    /\ connection_state = RECONNECTING
    /\ retry_count < max_retries
    /\ connection_state' = CONNECTING
    /\ retry_count' = retry_count + 1
    /\ UNCHANGED nonClientVars

ClientRetriesExhausted ==
    /\ ~crashed
    /\ connection_state = RECONNECTING
    /\ retry_count >= max_retries
    /\ connection_state' = ERROR
    /\ UNCHANGED <<retry_count, nonClientVars>>

ClientReset ==
    /\ ~crashed
    /\ connection_state = ERROR
    /\ connection_state' = DISCONNECTED
    /\ retry_count' = 0
    /\ UNCHANGED nonClientVars


\* ------------------------------------------------- main thread (Kivy)
\* The main thread is between two handlers.
MainIdle == ~crashed /\ mainpc = "idle"

historyVars ==
    <<offered, delivered, transport_sends, error_notes, error_bubbles, empty_flushes>>
batchVars == <<pending_chunks, text_update_scheduled, flush_events, combined_text>>

\* Clock.schedule_once(lambda dt: self._scroll_to_bottom(force=True), 0.01)
InitialScroll ==
    /\ MainIdle
    /\ "_scroll_to_bottom" \in startup_events
    /\ startup_events' = startup_events \ {"_scroll_to_bottom"}
    /\ SetScroll(ScrollToBottom(ScrollState, TRUE))
    /\ UNCHANGED <<clientVars, in_flight, backend_available, status_label,
                   current_bubble, messages, text_input, input_focus, batchVars,
                   queue, mainpc, probe, threads, sends, next_id, crashed,
                   historyVars>>

\* The clock passes _last_scroll_time + _scroll_throttle_delay.
ThrottleElapses ==
    /\ ~crashed
    /\ ~throttle_elapsed
    /\ throttle_elapsed' = TRUE
    /\ UNCHANGED <<clientVars, in_flight, backend_available, status_label,
                   current_bubble, messages, text_input, input_focus, batchVars,
                   scroll_scheduled, scroll_y, scroll_events, queue, startup_events,
                   mainpc, probe, threads, sends, next_id, crashed, historyVars>>

\* _scroll_throttle_delay has passed since a deferred scroll was scheduled.  If
\* no scroll was performed since, that is no earlier than the end of the
\* throttle window.
ScrollTimerExpires ==
    /\ ~crashed
    /\ \E i \in 1..Len(scroll_events) :
        /\ \/ scroll_events[i] = "waiting" /\ throttle_elapsed
           \/ scroll_events[i] = "overtaken"
        /\ scroll_events' = [scroll_events EXCEPT ![i] = "due"]
    /\ UNCHANGED <<clientVars, in_flight, backend_available, status_label,
                   current_bubble, messages, text_input, input_focus, batchVars,
                   scroll_scheduled, throttle_elapsed, scroll_y, queue,
                   startup_events, mainpc, probe, threads, sends, next_id, crashed,
                   historyVars>>

RemoveAt(seq, i) == SubSeq(seq, 1, i - 1) \o SubSeq(seq, i + 1, Len(seq))

DoThrottledScroll ==
    /\ MainIdle
    /\ \E i \in 1..Len(scroll_events) :
        /\ scroll_events[i] = "due"
        /\ SetScroll([DoScroll(ScrollState) EXCEPT
                        !.scheduled = FALSE,
                        !.elapsed = FALSE,
                        !.events = Overtake(RemoveAt(scroll_events, i))])
    /\ UNCHANGED <<clientVars, in_flight, backend_available, status_label,
                   current_bubble, messages, text_input, input_focus, batchVars,
                   queue, startup_events, mainpc, probe, threads, sends, next_id,
                   crashed, historyVars>>

\* status_map without its entry for ConnectionState.ERROR
StatusMapWithoutError(state) ==
    CASE state = DISCONNECTED -> MSG_OFFLINE
      [] state = CONNECTING -> MSG_CONNECTING
      [] state = CONNECTED -> MSG_ONLINE
      [] state = RECONNECTING -> MSG_RECONNECTING
      [] OTHER -> MSG_DEMO_MODE

\* status_map.get(state, Messages.DEMO_MODE)
StatusMap(state) ==
    CASE state = DISCONNECTED -> MSG_OFFLINE
      [] state = CONNECTING -> MSG_CONNECTING
      [] state = CONNECTED -> MSG_ONLINE
      [] state = ERROR -> MSG_CONNECTION_ERROR
      [] state = RECONNECTING -> MSG_RECONNECTING
      [] OTHER -> MSG_DEMO_MODE

\* _monitor_connection_state without line 297: the label alone is refreshed
MonitorConnectionStateLabelOnly ==
    /\ MainIdle
    /\ status_label' = StatusMap(connection_state)
    /\ UNCHANGED <<clientVars, in_flight, backend_available, current_bubble, messages,
                   text_input, input_focus, batchVars, scrollVars, queue,
                   startup_events, mainpc, probe, threads, sends, next_id, crashed,
                   historyVars>>

\* Clock.schedule_interval(self._monitor_connection_state, 2.0)
MonitorConnectionState ==
    /\ MainIdle
    /\ IF ClientHasConnectionState
       THEN /\ status_label' = StatusMap(connection_state)
            /\ backend_available' = (connection_state = CONNECTED)
       ELSE /\ status_label' = IF ~backend_available THEN MSG_DEMO_MODE ELSE status_label
            /\ UNCHANGED backend_available
    /\ UNCHANGED <<clientVars, in_flight, current_bubble, messages, text_input,
                   input_focus, batchVars, scrollVars, queue, startup_events, mainpc,
                   probe, threads, sends, next_id, crashed, historyVars>>

\* _show_demo_response(message) applied to the layout and the scroll state
ShowDemoResponse(children, st, id, message) ==
    [children |-> AddWidget(children, ModernBubble(id, DemoText(message), FALSE)),
     scroll |-> ScrollToBottom(st, FALSE)]

\* send_message, bound to the send button and to on_text_validate; typed is what
\* the user has put into the input field when the handler runs.
SendMessage ==
    /\ MainIdle
    /\ \E typed \in Inputs :
       LET message_text == Strip(typed)
           user_bubble == ModernBubble(next_id, message_text, TRUE)
           with_user == AddWidget(messages, user_bubble)
           scrolled == ScrollToBottom(ScrollState, FALSE)
           cleaned == CleanupOldMessages(with_user)
           demo == ShowDemoResponse(cleaned, scrolled, next_id + 1, message_text)
       IN  IF message_text = <<>>
           THEN /\ text_input' = typed
                /\ UNCHANGED <<messages, scrollVars, threads, sends, next_id>>
           ELSE /\ sends < MaxSends
                /\ text_input' = <<>>
                /\ sends' = sends + 1
                /\ IF backend_available
                   THEN \* _send_to_backend: threading.Thread(target=_threaded_send)
                        /\ messages' = cleaned
                        /\ SetScroll(scrolled)
                        /\ threads' = [threads EXCEPT ![sends + 1].pc = "start"]
                        /\ next_id' = next_id + 1
                   ELSE /\ messages' = demo.children
                        /\ SetScroll(demo.scroll)
                        /\ next_id' = next_id + 2
                        /\ UNCHANGED threads
    /\ UNCHANGED <<clientVars, in_flight, backend_available, status_label,
                   current_bubble, input_focus, batchVars, queue, startup_events,
                   mainpc, probe, crashed, historyVars>>

\* _test_backend: threading.Thread(target=self._threaded_test).start()
TestBackend ==
    /\ MainIdle
    /\ "_test_backend" \in startup_events
    /\ startup_events' = startup_events \ {"_test_backend"}
    /\ probe' = "testing"
    /\ UNCHANGED <<clientVars, in_flight, backend_available, status_label,
                   current_bubble, messages, text_input, input_focus, batchVars,
                   scrollVars, queue, mainpc, threads, sends, next_id, crashed,
                   historyVars>>

\* lambda dt: setattr(self, 'backend_available', test_success)
RunSetBackendAvailable ==
    /\ MainIdle
    /\ queue # <<>>
    /\ Head(queue).task = "set_backend_available"
    /\ backend_available' = Head(queue).flag
    /\ queue' = Tail(queue)
    /\ UNCHANGED <<clientVars, in_flight, status_label, current_bubble, messages,
                   text_input, input_focus, batchVars, scrollVars, startup_events,
                   mainpc, probe, threads, sends, next_id, crashed, historyVars>>

\* lambda dt: setattr(self.status_label, 'text', ...)
RunSetStatusLabel ==
    /\ MainIdle
    /\ queue # <<>>
    /\ Head(queue).task = "set_status_label"
    /\ status_label' = Head(queue).text[1]
    /\ queue' = Tail(queue)
    /\ UNCHANGED <<clientVars, in_flight, backend_available, current_bubble, messages,
                   text_input, input_focus, batchVars, scrollVars, startup_events,
                   mainpc, probe, threads, sends, next_id, crashed, historyVars>>

\* _show_error_message(error_msg) applied to the layout and the scroll state
ShowErrorMessage(children, st, id, error_msg) ==
    [children |-> AddWidget(children, ModernBubble(id, <<"[x] ">> \o error_msg, FALSE)),
     scroll |-> ScrollToBottom(st, FALSE)]

\* lambda dt: self._show_error_message(error_msg)
RunShowErrorMessage ==
    /\ MainIdle
    /\ queue # <<>>
    /\ Head(queue).task = "show_error_message"
    /\ LET shown == ShowErrorMessage(messages, ScrollState, next_id, Head(queue).text)
       IN  /\ messages' = shown.children
           /\ SetScroll(shown.scroll)
    /\ next_id' = next_id + 1
    /\ status_label' = MSG_CONNECTION_ERROR
    /\ backend_available' = FALSE
    /\ error_bubbles' = [error_bubbles EXCEPT ![Head(queue).send] = @ + 1]
    /\ queue' = Tail(queue)
    /\ UNCHANGED <<clientVars, in_flight, current_bubble, text_input, input_focus,
                   batchVars, startup_events, mainpc, probe, threads, sends, crashed,
                   offered, delivered, transport_sends, error_notes, empty_flushes>>

\* lambda dt: self._focus_input()
RunFocusInput ==
    /\ MainIdle
    /\ queue # <<>>
    /\ Head(queue).task = "focus_input"
    /\ input_focus' = TRUE
    /\ queue' = Tail(queue)
    /\ UNCHANGED <<clientVars, in_flight, backend_available, status_label,
                   current_bubble, messages, text_input, batchVars, scrollVars,
                   startup_events, mainpc, probe, threads, sends, next_id, crashed,
                   historyVars>>

\* ------------------------------------------------- _process_batched_chunks
\* self._pending_chunks.clear()
Cleared(chunks) == <<>>

\* _process_batched_chunks without the test at lines 376-378
ProcessBatchedChunksNoEmptyTest ==
    /\ MainIdle
    /\ flush_events > 0
    /\ flush_events' = flush_events - 1
    /\ combined_text' = Join(pending_chunks)
    /\ mainpc' = "clear"
    /\ UNCHANGED <<clientVars, in_flight, backend_available, status_label,
                   current_bubble, messages, text_input, input_focus, pending_chunks,
                   text_update_scheduled, scrollVars, queue, startup_events, probe,
                   threads, sends, next_id, crashed, historyVars>>

\* _process_batched_chunks taking the first pending chunk instead of the join
ProcessBatchedChunksFirstChunk ==
    /\ MainIdle
    /\ flush_events > 0
    /\ flush_events' = flush_events - 1
    /\ IF pending_chunks = <<>>
       THEN /\ text_update_scheduled' = FALSE
            /\ empty_flushes' = empty_flushes + 1
            /\ UNCHANGED <<combined_text, mainpc>>
       ELSE /\ combined_text' = Head(pending_chunks)
            /\ mainpc' = "clear"
            /\ UNCHANGED <<text_update_scheduled, empty_flushes>>
    /\ UNCHANGED <<clientVars, in_flight, backend_available, status_label,
                   current_bubble, messages, text_input, input_focus, pending_chunks,
                   scrollVars, queue, startup_events, probe, threads, sends, next_id,
                   crashed, offered, delivered, transport_sends, error_notes,
                   error_bubbles>>

\* if not self._pending_chunks: ...; combined_text = ''.join(self._pending_chunks)
ProcessBatchedChunks ==
    /\ MainIdle
    /\ flush_events > 0
    /\ flush_events' = flush_events - 1
    /\ IF pending_chunks = <<>>
       THEN /\ text_update_scheduled' = FALSE
            /\ empty_flushes' = empty_flushes + 1
            /\ UNCHANGED <<combined_text, mainpc>>
       ELSE /\ combined_text' = Join(pending_chunks)
            /\ mainpc' = "clear"
            /\ UNCHANGED <<text_update_scheduled, empty_flushes>>
    /\ UNCHANGED <<clientVars, in_flight, backend_available, status_label,
                   current_bubble, messages, text_input, input_focus, pending_chunks,
                   scrollVars, queue, startup_events, probe, threads, sends, next_id,
                   crashed, offered, delivered, transport_sends, error_notes,
                   error_bubbles>>

\* self._pending_chunks.clear(); self._append_chunk_batch(combined_text) is entered
ProcessBatchedChunksClear ==
    /\ ~crashed
    /\ mainpc = "clear"
    /\ pending_chunks' = Cleared(pending_chunks)
    /\ delivered' = Append(delivered, combined_text)
    /\ mainpc' = "append"
    /\ UNCHANGED <<clientVars, in_flight, backend_available, status_label,
                   current_bubble, messages, text_input, input_focus,
                   text_update_scheduled, flush_events, combined_text, scrollVars,
                   queue, startup_events, probe, threads, sends, next_id, crashed,
                   offered, transport_sends, error_notes, error_bubbles,
                   empty_flushes>>

\* if not self.current_bubble: self.current_bubble = ModernBubble("")
AppendChunkBatchCheck ==
    /\ ~crashed
    /\ mainpc = "append"
    /\ IF current_bubble = None
       THEN /\ current_bubble' = next_id
            /\ next_id' = next_id + 1
            /\ mainpc' = "add"
       ELSE /\ mainpc' = "update"
            /\ UNCHANGED <<current_bubble, next_id>>
    /\ UNCHANGED <<clientVars, in_flight, backend_available, status_label, messages,
                   text_input, input_focus, batchVars, scrollVars, queue,
                   startup_events, probe, threads, sends, crashed, historyVars>>

\* self.messages.add_widget(self.current_bubble): add_widget(None) raises
AppendChunkBatchAdd ==
    /\ ~crashed
    /\ mainpc = "add"
    /\ IF current_bubble = None
       THEN /\ crashed' = TRUE
            /\ UNCHANGED <<messages, mainpc>>
       ELSE /\ messages' = AddWidget(messages, ModernBubble(current_bubble, <<>>, FALSE))
            /\ mainpc' = "update"
            /\ UNCHANGED crashed
    /\ UNCHANGED <<clientVars, in_flight, backend_available, status_label,
                   current_bubble, text_input, input_focus, batchVars, scrollVars,
                   queue, startup_events, probe, threads, sends, next_id, historyVars>>

\* current_text = self.current_bubble.label.text
\* self.current_bubble.update_text(current_text + text); self._scroll_to_bottom()
\* None has no attribute label: AttributeError
AppendChunkBatchUpdate ==
    /\ ~crashed
    /\ mainpc = "update"
    /\ IF current_bubble = None
       THEN /\ crashed' = TRUE
            /\ UNCHANGED <<messages, mainpc, scrollVars>>
       ELSE /\ messages' = UpdateText(messages, current_bubble, combined_text)
            /\ SetScroll(ScrollToBottom(ScrollState, FALSE))
            /\ mainpc' = "flag"
            /\ UNCHANGED crashed
    /\ UNCHANGED <<clientVars, in_flight, backend_available, status_label,
                   current_bubble, text_input, input_focus, batchVars, queue,
                   startup_events, probe, threads, sends, next_id, historyVars>>

\* self._text_update_scheduled = False, and the handler returns
ProcessBatchedChunksDone ==
    /\ ~crashed
    /\ mainpc = "flag"
    /\ text_update_scheduled' = FALSE
    /\ combined_text' = <<>>
    /\ mainpc' = "idle"
    /\ UNCHANGED <<clientVars, in_flight, backend_available, status_label,
                   current_bubble, messages, text_input, input_focus, pending_chunks,
                   flush_events, scrollVars, queue, startup_events, probe, threads,
                   sends, next_id, crashed, historyVars>>

\* ------------------------------------------------- ChatApp.on_stop
\* The user closes the window: on_stop runs and does nothing (its body is
\* 'pass'), and the main loop ends, so the Clock runs no further event.  No
\* event is cancelled and the client is not told; the worker threads, which
\* are daemon threads, run on until the process exits.
OnStop ==
    /\ MainIdle
    /\ mainpc' = "stopped"
    /\ UNCHANGED <<clientVars, in_flight, backend_available, status_label,
                   current_bubble, messages, text_input, input_focus, batchVars,
                   scrollVars, queue, startup_events, probe, threads, sends, next_id,
                   crashed, historyVars>>

\* ------------------------------------------------- _threaded_test
mainVars ==
    <<backend_available, status_label, current_bubble, messages, text_input,
      input_focus, scrollVars, startup_events, mainpc, sends, next_id, crashed>>

\* _threaded_test scheduling backend_available = True whatever the probe says
ProbeReturnsAlwaysAvailable ==
    /\ ~crashed
    /\ probe = "testing"
    /\ \E test_success \in BOOLEAN :
        /\ queue' = Append(queue, Task("set_backend_available", 0, TRUE, <<>>))
        /\ probe' = IF test_success THEN "returned_true" ELSE "returned_false"
    /\ UNCHANGED <<clientVars, in_flight, mainVars, batchVars, threads, historyVars>>

\* test_success = self.client.test_connection(); schedule the setattr
ProbeReturns ==
    /\ ~crashed
    /\ probe = "testing"
    /\ \E test_success \in BOOLEAN :
        /\ queue' = Append(queue, Task("set_backend_available", 0, test_success, <<>>))
        /\ probe' = IF test_success THEN "returned_true" ELSE "returned_false"
    /\ UNCHANGED <<clientVars, in_flight, mainVars, batchVars, threads, historyVars>>

\* test_connection raises
ProbeRaises ==
    /\ ~crashed
    /\ probe = "testing"
    /\ probe' = "raised"
    /\ UNCHANGED <<clientVars, in_flight, mainVars, batchVars, queue, threads,
                   historyVars>>

\* the status label's setattr is scheduled, and the thread ends: done_true
\* when test_connection returned True, done_false when it returned False or
\* raised
ProbeScheduleStatus ==
    /\ ~crashed
    /\ probe \in {"returned_true", "returned_false", "raised"}
    /\ queue' = Append(queue, Task("set_status_label", 0, FALSE,
                    <<IF probe = "returned_true" THEN MSG_ONLINE ELSE MSG_DEMO_MODE>>))
    /\ probe' = IF probe = "returned_true" THEN "done_true" ELSE "done_false"
    /\ UNCHANGED <<clientVars, in_flight, mainVars, batchVars, threads, historyVars>>

\* ------------------------------------------------- _threaded_send
\* the error task scheduled twice
ErrorTasksTwice(s, err) ==
    <<Task("show_error_message", s, FALSE, FormatErrorMessage(err)),
      Task("show_error_message", s, FALSE, FormatErrorMessage(err))>>

\* except Exception as e: error_msg = self._format_error_message(str(e)), and one
\* task is scheduled
ErrorTasks(s, err) == <<Task("show_error_message", s, FALSE, FormatErrorMessage(err))>>

\* self.client.send_message(message, self._on_chunk, self._on_message_complete)
ThreadedSend(s) ==
    /\ ~crashed
    /\ threads[s].pc = "start"
    /\ IF ClientAdmit = "ok"
       THEN /\ in_flight' = s
            /\ transport_sends' = [transport_sends EXCEPT ![s] = @ + 1]
            /\ threads' = [threads EXCEPT ![s].pc = "stream"]
       ELSE /\ threads' = [threads EXCEPT ![s].pc = "except",
                                          ![s].err = ErrorText(ClientAdmit)]
            /\ UNCHANGED <<in_flight, transport_sends>>
    /\ UNCHANGED <<clientVars, mainVars, batchVars, queue, probe, offered, delivered,
                   error_notes, error_bubbles, empty_flushes>>

\* the client calls on_chunk: self._pending_chunks.append(chunk)
OnChunk(s) ==
    /\ ~crashed
    /\ threads[s].pc = "stream"
    /\ threads[s].emitted < MaxChunks
    /\ LET chunk == Chunk(s, threads[s].emitted + 1)
       IN  /\ pending_chunks' = Append(pending_chunks, chunk)
           /\ offered' = Append(offered, chunk)
    /\ threads' = [threads EXCEPT ![s].pc = "on_chunk_test", ![s].emitted = @ + 1]
    /\ UNCHANGED <<clientVars, in_flight, mainVars, text_update_scheduled,
                   flush_events, combined_text, queue, probe, delivered,
                   transport_sends, error_notes, error_bubbles, empty_flushes>>

\* _on_chunk without the test of the flag at line 370
OnChunkTestAlwaysSchedules(s) ==
    /\ ~crashed
    /\ threads[s].pc = "on_chunk_test"
    /\ threads' = [threads EXCEPT ![s].pc = "on_chunk_set"]
    /\ UNCHANGED <<clientVars, in_flight, mainVars, batchVars, queue, probe,
                   historyVars>>

\* if not self._text_update_scheduled:
OnChunkTest(s) ==
    /\ ~crashed
    /\ threads[s].pc = "on_chunk_test"
    /\ threads' = [threads EXCEPT ![s].pc =
                      IF ~text_update_scheduled THEN "on_chunk_set" ELSE "stream"]
    /\ UNCHANGED <<clientVars, in_flight, mainVars, batchVars, queue, probe,
                   historyVars>>

\* self._text_update_scheduled = True
OnChunkSet(s) ==
    /\ ~crashed
    /\ threads[s].pc = "on_chunk_set"
    /\ text_update_scheduled' = TRUE
    /\ threads' = [threads EXCEPT ![s].pc = "on_chunk_schedule"]
    /\ UNCHANGED <<clientVars, in_flight, mainVars, pending_chunks, flush_events,
                   combined_text, queue, probe, historyVars>>

\* Clock.schedule_once(self._process_batched_chunks, self._text_batch_delay)
OnChunkSchedule(s) ==
    /\ ~crashed
    /\ threads[s].pc = "on_chunk_schedule"
    /\ flush_events' = flush_events + 1
    /\ threads' = [threads EXCEPT ![s].pc = "stream"]
    /\ UNCHANGED <<clientVars, in_flight, mainVars, pending_chunks,
                   text_update_scheduled, combined_text, queue, probe, historyVars>>

\* the client calls on_complete: self.current_bubble = None
OnMessageComplete(s) ==
    /\ ~crashed
    /\ threads[s].pc = "stream"
    /\ current_bubble' = None
    /\ threads' = [threads EXCEPT ![s].pc = "complete_schedule"]
    /\ UNCHANGED <<clientVars, in_flight, backend_available, status_label, messages,
                   text_input, input_focus, scrollVars, startup_events, mainpc, sends,
                   next_id, crashed, batchVars, queue, probe, historyVars>>

\* Clock.schedule_once(lambda dt: self._focus_input()); client.send_message returns
OnMessageCompleteSchedule(s) ==
    /\ ~crashed
    /\ threads[s].pc = "complete_schedule"
    /\ queue' = Append(queue, Task("focus_input", 0, FALSE, <<>>))
    /\ in_flight' = None
    /\ threads' = [threads EXCEPT ![s].pc = "completed"]
    /\ UNCHANGED <<clientVars, mainVars, batchVars, probe, historyVars>>

\* The link fails while the exchange is open: CONNECTED -> RECONNECTING, and
\* client.send_message raises.
StreamLinkFailure(s) ==
    /\ ~crashed
    /\ threads[s].pc = "stream"
    /\ connection_state = CONNECTED
    /\ connection_state' = RECONNECTING
    /\ in_flight' = None
    /\ \E kind \in LinkErrors :
        threads' = [threads EXCEPT ![s].pc = "except", ![s].err = ErrorText(kind)]
    /\ UNCHANGED <<retry_count, mainVars, batchVars, queue, probe, historyVars>>

\* except Exception as e: Clock.schedule_once(lambda dt: self._show_error_message(..))
ThreadedSendExcept(s) ==
    /\ ~crashed
    /\ threads[s].pc = "except"
    /\ queue' = queue \o ErrorTasks(s, threads[s].err)
    /\ error_notes' = [error_notes EXCEPT ![s] = @ + Len(ErrorTasks(s, threads[s].err))]
    /\ threads' = [threads EXCEPT ![s].pc = "failed", ![s].err = <<>>]
    /\ UNCHANGED <<clientVars, in_flight, mainVars, batchVars, probe, offered,
                   delivered, transport_sends, error_bubbles, empty_flushes>>

\* ------------------------------------------------- specification
\* The whole program: every step of the client, the clock, the main thread
\* and the worker threads.
Next ==
    \/ ClientConnectRequested
    \/ ClientOpenSucceeds
    \/ ClientOpenFails
    \/ ClientLinkFailure
    \/ ClientRetry
    \/ ClientRetriesExhausted
    \/ ClientReset
    \/ InitialScroll
    \/ ThrottleElapses
    \/ ScrollTimerExpires
    \/ DoThrottledScroll
    \/ MonitorConnectionState
    \/ SendMessage
    \/ TestBackend
    \/ RunSetBackendAvailable
    \/ RunSetStatusLabel
    \/ RunShowErrorMessage
    \/ RunFocusInput
    \/ ProcessBatchedChunks
    \/ ProcessBatchedChunksClear
    \/ AppendChunkBatchCheck
    \/ AppendChunkBatchAdd
    \/ AppendChunkBatchUpdate
    \/ ProcessBatchedChunksDone
    \/ ProbeReturns
    \/ ProbeRaises
    \/ ProbeScheduleStatus
    \/ OnStop
    \/ \E s \in SendIds :
        \/ ThreadedSend(s)
        \/ OnChunk(s)
        \/ OnChunkTest(s)
        \/ OnChunkSet(s)
        \/ OnChunkSchedule(s)
        \/ OnMessageComplete(s)
        \/ OnMessageCompleteSchedule(s)
        \/ StreamLinkFailure(s)
        \/ ThreadedSendExcept(s)

Spec == Init /\ [][Next]_vars

\* Start-up alone: the two one-shot events of __init__, the probe thread and
\* the tasks it schedules.  It ends, when the probe finds no backend, in the
\* state InitSession below.
NextStartup ==
    \/ InitialScroll
    \/ ThrottleElapses
    \/ TestBackend
    \/ ProbeReturns
    \/ ProbeRaises
    \/ ProbeScheduleStatus
    \/ RunSetBackendAvailable
    \/ RunSetStatusLabel

SpecStartup == Init /\ [][NextStartup]_vars

\* The chat session once start-up is over: the forced first scroll has run, the
\* probe found no backend and both of its tasks have run.
InitSession ==
    /\ connection_state = DISCONNECTED
    /\ retry_count = 0
    /\ in_flight = None
    /\ backend_available = FALSE
    /\ status_label = MSG_DEMO_MODE
    /\ current_bubble = None
    /\ messages = <<ModernBubble(1, <<"Config.WELCOME_MESSAGE">>, FALSE)>>
    /\ text_input = <<>>
    /\ input_focus = FALSE
    /\ pending_chunks = <<>>
    /\ text_update_scheduled = FALSE
    /\ scroll_scheduled = FALSE
    /\ throttle_elapsed = TRUE
    /\ scroll_y = 0
    /\ scroll_events = <<>>
    /\ flush_events = 0
    /\ queue = <<>>
    /\ startup_events = {}
    /\ mainpc = "idle"
    /\ combined_text = <<>>
    /\ probe = "done_false"
    /\ threads = [s \in SendIds |-> NoThread]
    /\ sends = 0
    /\ next_id = 2
    /\ crashed = FALSE
    /\ offered = <<>>
    /\ delivered = <<>>
    /\ transport_sends = [s \in SendIds |-> 0]
    /\ error_notes = [s \in SendIds |-> 0]
    /\ error_bubbles = [s \in SendIds |-> 0]
    /\ empty_flushes = 0

\* The steps of a session in which the link is opened, streams, and may fail
\* while streaming.
NextSession ==
    \/ ClientConnectRequested
    \/ ClientOpenSucceeds
    \/ ClientRetry
    \/ MonitorConnectionState
    \/ SendMessage
    \/ RunShowErrorMessage
    \/ RunFocusInput
    \/ ProcessBatchedChunks
    \/ ProcessBatchedChunksClear
    \/ AppendChunkBatchCheck
    \/ AppendChunkBatchAdd
    \/ AppendChunkBatchUpdate
    \/ ProcessBatchedChunksDone
    \/ \E s \in SendIds :
        \/ ThreadedSend(s)
        \/ OnChunk(s)
        \/ OnChunkTest(s)
        \/ OnChunkSet(s)
        \/ OnChunkSchedule(s)
        \/ OnMessageComplete(s)
        \/ OnMessageCompleteSchedule(s)
        \/ StreamLinkFailure(s)
        \/ ThreadedSendExcept(s)

SpecSession == InitSession /\ [][NextSession]_vars

\* Violated under SpecStartup: start-up reaches the session's first state.
SessionStartUnreachable == ~InitSession

\* The session, and the user closing the application at any moment of it.
NextStop ==
    \/ NextSession
    \/ OnStop

SpecStop == InitSession /\ [][NextStop]_vars

\* A session without a backend: nothing asks the client to connect, so its
\* state stays DISCONNECTED from start-up on.  The start-up events, the probe,
\* the poll, the user's sends and the scroll throttle all run.
NextOffline ==
    \/ InitialScroll
    \/ ThrottleElapses
    \/ ScrollTimerExpires
    \/ DoThrottledScroll
    \/ TestBackend
    \/ ProbeReturns
    \/ ProbeRaises
    \/ ProbeScheduleStatus
    \/ RunSetBackendAvailable
    \/ RunSetStatusLabel
    \/ MonitorConnectionState
    \/ SendMessage
    \/ RunShowErrorMessage
    \/ \E s \in SendIds :
        \/ ThreadedSend(s)
        \/ ThreadedSendExcept(s)

SpecOffline == Init /\ [][NextOffline]_vars

\* The connection and what the screen shows of it: every transition of the
\* client's state machine, the start-up probe, the poll, the user's sends and
\* the error reports.  No chunk is streamed: an exchange ends by link failure;
\* the forced first scroll, which touches none of this, is left pending.
NextPolling ==
    \/ ClientConnectRequested
    \/ ClientOpenSucceeds
    \/ ClientOpenFails
    \/ ClientLinkFailure
    \/ ClientRetry
    \/ ClientRetriesExhausted
    \/ ClientReset
    \/ TestBackend
    \/ ProbeReturns
    \/ ProbeRaises
    \/ ProbeScheduleStatus
    \/ RunSetBackendAvailable
    \/ RunSetStatusLabel
    \/ MonitorConnectionState
    \/ SendMessage
    \/ RunShowErrorMessage
    \/ \E s \in SendIds :
        \/ ThreadedSend(s)
        \/ StreamLinkFailure(s)
        \/ ThreadedSendExcept(s)

SpecPolling == Init /\ [][NextPolling]_vars

\* Clock.schedule_interval(self._monitor_connection_state, 2.0): while the main
\* loop runs, the poll is run again and again.
SpecPollingFair == SpecPolling /\ WF_vars(MonitorConnectionState)

\* ------------------------------------------------- properties
\* A worker thread is inside _on_chunk.
InOnChunk(s) == threads[s].pc \in {"on_chunk_test", "on_chunk_set", "on_chunk_schedule"}

\* The exchange of send s is open in the client.
ExchangeOpen(s) ==
    threads[s].pc \in {"stream", "on_chunk_test", "on_chunk_set", "on_chunk_schedule",
                       "complete_schedule"}

\* A thread started by _send_to_backend or _test_backend takes this step.
WorkerStep ==
    \/ \E s \in SendIds : threads[s].pc # "none" /\ threads'[s] # threads[s]
    \/ probe # "none" /\ probe' # probe

\* What the consumer sees and the coalescer's buffer.
consumerVars ==
    <<pending_chunks, text_update_scheduled, current_bubble, messages,
      backend_available, status_label>>

\* C1: the batches handed to _append_chunk_batch, followed by what is still in
\* _pending_chunks, are the chunks offered so far, in arrival order.
C1_NoChunkLost ==
    Join(delivered) \o Join(pending_chunks) = Join(offered)

\* C2: whenever chunks are pending, no flush is executing and no _on_chunk call
\* is still running, a flush is scheduled.
C2_PendingHasFlushScheduled ==
    (/\ pending_chunks # <<>>
     /\ mainpc = "idle"
     /\ \A s \in SendIds : ~InOnChunk(s))
    => flush_events > 0

\* C3: once the one streamed message has completed and every flush has run, the
\* newest bubble is an AI bubble whose text is the concatenation of the
\* message's chunks.  Stated for the runs in which the coalescer delivered every
\* chunk once and in order.
C3_StreamedTextInOneBubble ==
    (/\ sends = 1
     /\ threads[1].pc = "completed"
     /\ threads[1].emitted > 0
     /\ mainpc = "idle"
     /\ flush_events = 0
     /\ pending_chunks = <<>>
     /\ Join(delivered) = Join(offered)
     /\ ~crashed)
    => (/\ ~messages[1].is_user
        /\ messages[1].text = Join(offered))

\* C4: the history never holds more than max_messages bubbles.
C4_HistoryBounded ==
    Len(messages) <= max_messages

Min(a, b) == IF a < b THEN a ELSE b

C6_StreamingBubbleRetained ==
    (current_bubble # None /\ mainpc # "add") => current_bubble \in BubbleIds(messages)

\* C7: a non-empty send issued while the connection state is not CONNECTED
\* starts no backend thread and is answered with the demo response.
C7_NoBackendSendUnlessConnected ==
    [][(sends' = sends + 1 /\ connection_state # CONNECTED) =>
         (/\ threads' = threads
          /\ ~messages'[1].is_user)]_vars

\* C8: at most one exchange is open at any time, and it is the one the client
\* holds as in flight; a send issued meanwhile opens no second one.
C8_OneExchangeInFlight ==
    /\ Cardinality({s \in SendIds : ExchangeOpen(s)}) <= 1
    /\ \A s \in SendIds : ExchangeOpen(s) => in_flight = s

\* C8 witness: a second send was turned away as Busy while an exchange is open.
C8_SecondSendBusy ==
    \E s, t \in SendIds :
        /\ ExchangeOpen(s)
        /\ threads[t].pc = "except"
        /\ threads[t].err = ErrorText("Busy")

\* C9: a step of a worker thread leaves the coalescer's buffer and flag,
\* current_bubble, the history, backend_available and the status label alone.
C9_WorkersOnlyEnqueue ==
    [][WorkerStep => UNCHANGED consumerVars]_vars

\* Number of show_error_message tasks of send s waiting in the Clock.
ErrorTasksQueued(s) ==
    Cardinality({i \in 1..Len(queue) :
                    queue[i].task = "show_error_message" /\ queue[i].send = s})

\* No chunk occurs twice in the texts handed to _append_chunk_batch.
NoChunkDeliveredTwice ==
    LET d == Join(delivered)
    IN  Cardinality({d[i] : i \in 1..Len(d)}) = Len(d)

\* C10: when the link fails during a stream the state goes from CONNECTED to
\* RECONNECTING; every failed send has exactly one error notification (a
\* scheduled task or the bubble it puts on screen), never more; no message is
\* written to the link twice; no chunk is delivered twice.
C10_LinkFailureReportedOnce ==
    [][/\ (\E s \in SendIds : threads[s].pc = "stream" /\ threads'[s].pc = "except")
          => (connection_state = CONNECTED /\ connection_state' = RECONNECTING)
       /\ \A s \in SendIds :
            /\ error_notes'[s] <= 1
            /\ ErrorTasksQueued(s)' + error_bubbles'[s] = error_notes'[s]
            /\ threads'[s].pc = "failed" => error_notes'[s] = 1
            /\ transport_sends'[s] <= 1
       /\ NoChunkDeliveredTwice']_vars

\* C10 witness: a stream was cut off after a chunk had been delivered, and its
\* error bubble is on screen.
C10_FailureShown ==
    \E s \in SendIds :
        /\ threads[s].pc = "failed"
        /\ threads[s].emitted > 0
        /\ transport_sends[s] = 1
        /\ error_bubbles[s] = 1
        /\ delivered # <<>>
        /\ connection_state = RECONNECTING

C12_OneDeferredScroll ==
    LET after == ScrollToBottom(ScrollState, FALSE)
    IN  /\ Len(scroll_events) = IF scroll_scheduled THEN 1 ELSE 0
        /\ Len(after.events) <= 1
        /\ throttle_elapsed
             => /\ after.y = 0
                /\ ~after.elapsed
                /\ Len(after.events) = Len(scroll_events)
                /\ after.scheduled = scroll_scheduled
        /\ (~throttle_elapsed /\ ~scroll_scheduled)
             => /\ after.scheduled
                /\ after.events = <<"waiting">>
                /\ after.y = scroll_y
        /\ (~throttle_elapsed /\ scroll_scheduled) => after = ScrollState

\* C12 witness: two sends answered in demo mode, four triggers in all, the
\* later ones inside the throttle window, and one deferred scroll waiting.
C12_TriggersCoalesced ==
    /\ sends = 2
    /\ ~messages[1].is_user
    /\ ~throttle_elapsed
    /\ scroll_scheduled
    /\ scroll_events = <<"waiting">>

\* C13: the triggers of one throttle window produce one scroll, performed when
\* the window ends: once the throttle interval since the last scroll has
\* elapsed no deferred scroll is still waiting for its timer, and none is
\* left to run after a later scroll has already been performed.
C13_OneScrollAtWindowBoundary ==
    \A i \in 1..Len(scroll_events) :
        /\ scroll_events[i] = "waiting" => ~throttle_elapsed
        /\ scroll_events[i] # "overtaken"

\* Send s is the only one that streamed, and its stream is over: every chunk
\* of the message has been offered.
StreamOver(s) ==
    /\ threads[s].emitted > 0
    /\ threads[s].pc \in {"complete_schedule", "completed", "except", "failed"}
    /\ \A t \in SendIds \ {s} : threads[t].emitted = 0

\* C14: when every chunk of the message has been offered before the first
\* flush fires, that flush joins all of them, and the one batch it delivers
\* stays the only one.
C14_OneBatchOfAllChunks ==
    /\ [][\A s \in SendIds :
            (/\ StreamOver(s)
             /\ delivered = <<>>
             /\ mainpc = "idle"
             /\ mainpc' = "clear")
            => combined_text' = Join(offered)]_vars
    /\ [](\A s \in SendIds :
            (/\ StreamOver(s)
             /\ delivered # <<>>
             /\ delivered[1] = Join(offered))
            => /\ delivered = <<Join(offered)>>
               /\ pending_chunks = <<>>)

\* C14 witness: two chunks were offered, the stream completed, and one batch
\* holding both has been delivered and put into the bubble.
C14_BothChunksInOneBatch ==
    \E s \in SendIds :
        /\ StreamOver(s)
        /\ threads[s].pc = "completed"
        /\ Len(offered) = 2
        /\ delivered = <<Join(offered)>>
        /\ mainpc = "idle"

\* C15: a flush that finds _pending_chunks empty hands nothing to
\* _append_chunk_batch, creates no bubble, leaves the history, current_bubble
\* and the scroll state alone and returns at once; it clears the flag.
C15_EmptyFlushIsNoOp ==
    [][(flush_events' = flush_events - 1 /\ pending_chunks = <<>>)
         => /\ ~text_update_scheduled'
            /\ mainpc' = "idle"
            /\ UNCHANGED <<delivered, messages, current_bubble, next_id,
                           pending_chunks, combined_text, scrollVars, queue,
                           backend_available, status_label>>]_vars

\* C15 witness: a flush has found the buffer empty, the chunk that scheduled
\* it having been taken by the flush before.
C15_EmptyFlushRan ==
    /\ empty_flushes > 0
    /\ delivered # <<>>
    /\ pending_chunks = <<>>
    /\ ~text_update_scheduled
    /\ mainpc = "idle"

\* C16: once the application has stopped no flush, deferred scroll or other
\* scheduled task is left pending, and the link is released: no exchange is
\* open and the client is no longer CONNECTED.
C16_StopCancelsAndReleases ==
    mainpc = "stopped"
        => /\ flush_events = 0
           /\ scroll_events = <<>>
           /\ queue = <<>>
           /\ in_flight = None
           /\ connection_state # CONNECTED

\* test_connection returned False or raised.
ProbeFailed == probe \in {"returned_false", "raised", "done_false"}

\* C17: after a failed start-up probe nothing has left the probe thread as an
\* exception, backend_available is false and the connection state is
\* DISCONNECTED; a non-empty send then starts no _threaded_send and adds the
\* user bubble and exactly one demo response.
C17_FailedProbeStaysOffline ==
    /\ [](ProbeFailed
            => /\ ~crashed
               /\ ~backend_available
               /\ connection_state = DISCONNECTED)
    /\ [][(ProbeFailed /\ sends' = sends + 1)
            => /\ threads' = threads
               /\ next_id' = next_id + 2
               /\ messages'[1] = ModernBubble(next_id + 1, DemoText(<<"h">>), FALSE)
               /\ messages'[2] = ModernBubble(next_id, <<"h">>, TRUE)
               /\ Len(messages') <= max_messages + 1]_vars

\* C17 witness: the probe has failed, its tasks have run, and a send has been
\* answered with the demo response without any thread having been started.
C17_DemoAfterFailedProbe ==
    /\ probe = "done_false"
    /\ queue = <<>>
    /\ status_label = MSG_DEMO_MODE
    /\ sends >= 1
    /\ messages[1].text = DemoText(<<"h">>)
    /\ \A s \in SendIds : threads[s] = NoThread

\* C20: when the probe has succeeded, its tasks have run and no error was
\* reported, a non-empty send is handed to _threaded_send and gets no demo
\* response, whether or not the poll has run meanwhile.
C20_ProbeSuccessEnablesBackend ==
    [][(/\ probe = "done_true"
        /\ queue = <<>>
        /\ \A s \in SendIds : error_notes[s] = 0
        /\ sends' = sends + 1)
         => /\ threads'[sends'].pc = "start"
            /\ messages'[1].is_user]_vars

StatusLabels ==
    {MSG_OFFLINE, MSG_CONNECTING, MSG_ONLINE, MSG_CONNECTION_ERROR, MSG_RECONNECTING}

\* C19: status_map gives each of the five states a label of its own table (the
\* default Messages.DEMO_MODE is never used); right after every poll the label
\* is the one of the current state and backend_available is
\* (state = CONNECTED); and when the state stops changing the label ends up
\* showing it, whatever the probe or an error report wrote before.
C19_PollShowsState ==
    /\ [](\A st \in ConnectionState : StatusMap(st) \in StatusLabels)
    /\ [][MonitorConnectionState
            => /\ status_label' = StatusMap(connection_state')
               /\ backend_available' = (connection_state' = CONNECTED)]_vars
    /\ \A st \in ConnectionState :
          <>[](connection_state = st) => <>[](status_label = StatusMap(st))

\* C19 witness: the error report of a cut-off stream wrote CONNECTION_ERROR,
\* and the poll has since put the label of the current state, RECONNECTING.
C19_LabelRestoredAfterError ==
    /\ error_bubbles[1] = 1
    /\ connection_state = RECONNECTING
    /\ status_label = MSG_RECONNECTING
    /\ ~backend_available

\* Everything send_message could touch except the input field.
sendEffectVars ==
    <<messages, scrollVars, threads, sends, next_id, queue, current_bubble,
      batchVars, backend_available, status_label, in_flight, historyVars>>

\* C21: send_message run on an empty or all-whitespace input changes nothing
\* and leaves the input as typed; run on a non-empty input it clears the
\* field, adds one user bubble holding the stripped text, and then either
\* starts _threaded_send and adds nothing more, or starts no thread and adds
\* one demo response.
C21_SendMessageEffect ==
    [][SendMessage
        => IF sends' = sends
           THEN /\ UNCHANGED sendEffectVars
                /\ Strip(text_input') = <<>>
           ELSE LET user_bubble == ModernBubble(next_id, <<"h">>, TRUE)
                    backend == /\ threads'[sends'].pc = "start"
                               /\ messages'[1] = user_bubble
                               /\ next_id' = next_id + 1
                    demo == /\ threads' = threads
                            /\ messages'[1] =
                                 ModernBubble(next_id + 1, DemoText(<<"h">>), FALSE)
                            /\ messages'[2] = user_bubble
                            /\ next_id' = next_id + 2
                IN  /\ sends' = sends + 1
                    /\ text_input' = <<>>
                    /\ Cardinality({i \in 1..Len(messages') :
                                       messages'[i].id = next_id}) = 1
                    /\ backend # demo
                    /\ backend = backend_available]_vars

\* C21 witness: after a send answered in demo mode, a send of whitespace has
\* run: the input still holds the whitespace, and the history, with the demo
\* response on top, is as the first send left it.
C21_WhitespaceSendIgnored ==
    /\ text_input = <<WS>>
    /\ sends = 1
    /\ next_id = 4
    /\ messages[1] = ModernBubble(3, DemoText(<<"h">>), FALSE)
    /\ messages[2] = ModernBubble(2, <<"h">>, TRUE)

\* The sends whose chunks occur in a text.
SendsIn(text) ==
    {s \in SendIds :
        \E i \in 1..Len(text), k \in 1..MaxChunks : <<text[i]>> = Chunk(s, k)}

\* C22: every bubble of the history holds chunks of at most one streamed
\* message, and the batch that brings the first chunk of a message goes into
\* a bubble created for it.
C22_OneMessagePerBubble ==
    /\ [](\A i \in 1..Len(messages) : Cardinality(SendsIn(messages[i].text)) <= 1)
    /\ [][\A s \in SendIds :
            (/\ mainpc = "append"
             /\ mainpc' # "append"
             /\ <<Head(combined_text)>> = Chunk(s, 1))
            => mainpc' = "add"]_vars

\* _process_batched_chunks is executing on the main thread.
FlushExecuting == mainpc \in {"clear", "append", "add", "update", "flag"}

\* A worker has set _text_update_scheduled (line 371) and has not yet called
\* Clock.schedule_once (line 372).
FlushBeingScheduled == \E s \in SendIds : threads[s].pc = "on_chunk_schedule"

\* C23: at most one _process_batched_chunks event is pending, and
\* _text_update_scheduled is true exactly when a flush is pending, executing,
\* or being scheduled by a worker that has set the flag at line 371 and is
\* about to call Clock.schedule_once at line 372.
C23_AtMostOneFlushScheduled ==
    /\ flush_events <= 1
    /\ text_update_scheduled
           <=> (flush_events > 0 \/ FlushExecuting \/ FlushBeingScheduled)

\* C23 as stated: _text_update_scheduled is true exactly when a flush is
\* pending or executing, in every state of every interleaving.
C23_FlagExactlyWhenPendingOrExecuting ==
    /\ flush_events <= 1
    /\ text_update_scheduled <=> (flush_events > 0 \/ FlushExecuting)

\* A stream has offered its second chunk while the flush scheduled for its
\* first chunk was still pending: the flag was found set and no second flush
\* was scheduled.
C23_SecondChunkSchedulesNothing ==
    \E s \in SendIds :
        /\ threads[s].pc = "stream"
        /\ threads[s].emitted = MaxChunks
        /\ pending_chunks = <<Chunk(s, 1), Chunk(s, 2)>>
        /\ text_update_scheduled
        /\ flush_events = 1
        /\ mainpc = "idle"

====
